---- MODULE Spec2Model ----
(***************************************************************************)
(* A model of scripts/pack_from_tree.py: the crawl of the two benchmark    *)
(* trees, the global ordering of the candidates, the budget-aware          *)
(* truncation, the copy into the site tree and the manifest.               *)
(*                                                                         *)
(* Names of directories and files are sequences of one-character strings,  *)
(* so that int(name) and the ordering of paths are computed, not assumed.   *)
(* Modification times are integers.  The prompt and the model label of a   *)
(* candidate (read_json, extract_prompt, infer_model) take no part in      *)
(* ordering, selection or copying and are left out of the records.         *)
(***************************************************************************)
EXTENDS Integers, Sequences, FiniteSets, TLC

\* ------------------------------------------------------------------ bounds

MaxMtime == 2
MaxBudget == 4
MaxDirs == 3

\* ----------------------------------------------------------- characters

Digits == {"0", "1", "2", "3", "4", "5", "6", "7", "8", "9"}

DigitVal(c) ==
    CASE c = "0" -> 0 [] c = "1" -> 1 [] c = "2" -> 2 [] c = "3" -> 3
      [] c = "4" -> 4 [] c = "5" -> 5 [] c = "6" -> 6 [] c = "7" -> 7
      [] c = "8" -> 8 [] c = "9" -> 9

\* The code point of a character, for the characters the model's names use.
Ord(c) ==
    CASE c = " " -> 32 [] c = "+" -> 43 [] c = "-" -> 45 [] c = "." -> 46
      [] c \in Digits -> 48 + DigitVal(c)
      [] c = "_" -> 95
      [] c = "a" -> 97 [] c = "b" -> 98 [] c = "d" -> 100 [] c = "e" -> 101
      [] c = "g" -> 103 [] c = "j" -> 106 [] c = "l" -> 108 [] c = "n" -> 110
      [] c = "p" -> 112 [] c = "v" -> 118 [] c = "x" -> 120

\* Python's order on tuples and on strings: the first difference decides,
\* and a proper prefix is the smaller one.  Operands are integer sequences.
RECURSIVE LexLess(_, _)
LexLess(a, b) ==
    IF b = <<>> THEN FALSE
    ELSE IF a = <<>> THEN TRUE
    ELSE IF Head(a) < Head(b) THEN TRUE
    ELSE IF Head(b) < Head(a) THEN FALSE
    ELSE LexLess(Tail(a), Tail(b))

Codes(s) == [i \in 1..Len(s) |-> Ord(s[i])]

\* ------------------------------------------------------------- parse_int

RECURSIVE StripLeft(_)
StripLeft(s) == IF s # <<>> /\ Head(s) = " " THEN StripLeft(Tail(s)) ELSE s

RECURSIVE StripRight(_)
StripRight(s) ==
    IF s # <<>> /\ s[Len(s)] = " " THEN StripRight(SubSeq(s, 1, Len(s) - 1)) ELSE s

\* digit (["_"] digit)*: the body of a decimal literal that int() accepts.
RECURSIVE IsDigitBody(_)
IsDigitBody(s) ==
    /\ s # <<>>
    /\ Head(s) \in Digits
    /\ \/ Len(s) = 1
       \/ /\ s[2] = "_"
          /\ IsDigitBody(SubSeq(s, 3, Len(s)))
       \/ /\ s[2] # "_"
          /\ IsDigitBody(Tail(s))

RECURSIVE DigitsValue(_, _)
DigitsValue(s, acc) ==
    IF s = <<>> THEN acc
    ELSE IF Head(s) = "_" THEN DigitsValue(Tail(s), acc)
    ELSE DigitsValue(Tail(s), 10 * acc + DigitVal(Head(s)))

None == <<>>
Some(n) == <<n>>

\* int(s) or None: surrounding blanks are stripped, one sign is allowed,
\* the rest must be decimal digits.  The result is <<>> or <<n>>.
parse_int(s) ==
    LET t == StripRight(StripLeft(s))
        signed == t # <<>> /\ Head(t) \in {"+", "-"}
        body == IF signed THEN Tail(t) ELSE t
    IN  IF IsDigitBody(body)
        THEN Some(IF signed /\ Head(t) = "-"
                  THEN 0 - DigitsValue(body, 0)
                  ELSE DigitsValue(body, 0))
        ELSE None

\* ------------------------------------------------------------ list.sort

\* Where an element with key k goes into the sorted pairs `acc`: behind
\* every element that does not have to follow it.
InsertPos(acc, k, reverse) ==
    Cardinality({i \in 1..Len(acc) :
        IF reverse THEN ~LexLess(acc[i][2], k) ELSE ~LexLess(k, acc[i][2])})

RECURSIVE SortPairs(_, _, _)
SortPairs(pairs, acc, reverse) ==
    IF pairs = <<>> THEN acc
    ELSE LET x == Head(pairs)
             p == InsertPos(acc, x[2], reverse)
         IN  SortPairs(Tail(pairs),
                       SubSeq(acc, 1, p) \o <<x>> \o SubSeq(acc, p + 1, Len(acc)),
                       reverse)

\* items.sort(key=..., reverse=...): stable in both directions, elements
\* with equal keys keep the order they had.  keys[i] is the key of items[i].
SortByKey(items, keys, reverse) ==
    LET pairs == [i \in 1..Len(items) |-> <<items[i], keys[i]>>]
        out == SortPairs(pairs, <<>>, reverse)
    IN  [i \in 1..Len(out) |-> out[i][1]]

\* --------------------------------------------- iter_dirs_numeric_sorted

\* The numeric group ordered as strings, not as integers: "9" after "10".
iter_dirs_by_name(entries, reverse) ==
    LET IsDir(p) == p.isdir
        IsNum(p) == parse_int(p.name) # None
        NotNum(p) == parse_int(p.name) = None
        dirs == SelectSeq(entries, IsDir)
        numeric == SelectSeq(dirs, IsNum)
        nonnum == SelectSeq(dirs, NotNum)
    IN  SortByKey(numeric, [i \in 1..Len(numeric) |-> Codes(numeric[i].name)], reverse)
        \o SortByKey(nonnum, [i \in 1..Len(nonnum) |-> <<nonnum[i].mtime>>], reverse)

\* `entries` is root.iterdir() in the order the file system lists it; an
\* entry is [name, isdir, mtime, ...].
iter_dirs_numeric_sorted(entries, reverse) ==
    LET IsDir(p) == p.isdir
        IsNum(p) == parse_int(p.name) # None
        NotNum(p) == parse_int(p.name) = None
        dirs == SelectSeq(entries, IsDir)
        numeric == SelectSeq(dirs, IsNum)
        nonnum == SelectSeq(dirs, NotNum)
    IN  SortByKey(numeric,
                  [i \in 1..Len(numeric) |-> <<parse_int(numeric[i].name)[1]>>],
                  reverse)
        \o SortByKey(nonnum,
                     [i \in 1..Len(nonnum) |-> <<nonnum[i].mtime>>],
                     reverse)

child_dirs_numeric_sorted(entries, reverse) ==
    iter_dirs_numeric_sorted(entries, reverse)

\* ------------------------------------------------------------ first_jpg

JpgSuffix == <<".", "j", "p", "g">>

\* fnmatch of a file name against "*.jpg".
IsJpg(name) ==
    /\ Len(name) >= Len(JpgSuffix)
    /\ SubSeq(name, Len(name) - Len(JpgSuffix) + 1, Len(name)) = JpgSuffix

\* Path.stem of a name that ends in ".jpg".
Stem(name) == SubSeq(name, 1, Len(name) - Len(JpgSuffix))

\* sorted(folder.glob("*.jpg"))[0], or None.  `folder` is [kind, files];
\* glob yields nothing for a path that is not a directory.
first_jpg(folder) ==
    LET Match(f) == IsJpg(f.name)
        found == IF folder.kind = "dir" THEN SelectSeq(folder.files, Match) ELSE <<>>
        files == SortByKey(found, [i \in 1..Len(found) |-> Codes(found[i].name)], FALSE)
    IN  IF files # <<>> THEN Some(files[1]) ELSE None

\* --------------------------------------------------------- make_candidate

make_candidate(jpg, dst_dir, benchmark, iter_dir, sub_dir) ==
    LET iter_num == parse_int(iter_dir.name)
        sub_num == parse_int(sub_dir.name)
    IN  [src |-> jpg,
         dst_dir |-> dst_dir,
         benchmark |-> benchmark,
         iter_dir |-> iter_dir.name,
         sub_dir |-> sub_dir.name,
         mtime |-> jpg.mtime,
         iter_num |-> IF iter_num # None THEN iter_num[1] ELSE 0 - 1,
         sub_num |-> IF sub_num # None THEN sub_num[1] ELSE 0 - 1,
         id |-> <<benchmark, iter_dir.name, sub_dir.name, Stem(jpg.name)>>]

\* ------------------------------------------------------------- the crawl

\* A crawl returns [raised, cands]: `raised` when an exception left it.

\* The inner loop of both crawlers over the sorted children of one
\* generation directory.  geneval looks for the image in <sub>/samples
\* (skipped unless samples exists), dpg in <sub> itself.
RECURSIVE CrawlSubs(_, _, _)
CrawlSubs(benchmark, iter_dir, subs) ==
    IF subs = <<>> THEN <<>>
    ELSE LET sub == Head(subs)
             folder == IF benchmark = "geneval"
                       THEN sub.samples
                       ELSE [kind |-> "dir", files |-> sub.files]
             jpg == IF folder.kind = "absent" THEN None ELSE first_jpg(folder)
             rest == CrawlSubs(benchmark, iter_dir, Tail(subs))
         IN  IF jpg = None THEN rest
             ELSE <<make_candidate(jpg[1],
                                   <<benchmark, iter_dir.name, sub.name>>,
                                   benchmark, iter_dir, sub)>> \o rest

\* The outer loop.  gen_dir.exists() is true of a regular file too, and
\* iterdir() of a regular file raises NotADirectoryError.
RECURSIVE CrawlIters(_, _)
CrawlIters(benchmark, iters) ==
    IF iters = <<>> THEN [raised |-> FALSE, cands |-> <<>>]
    ELSE LET iter_dir == Head(iters)
             gen == iter_dir.gen
         IN  IF gen.kind = "absent" THEN CrawlIters(benchmark, Tail(iters))
             ELSE IF gen.kind = "file" THEN [raised |-> TRUE, cands |-> <<>>]
             ELSE LET here == CrawlSubs(benchmark, iter_dir,
                                        child_dirs_numeric_sorted(gen.entries, TRUE))
                      rest == CrawlIters(benchmark, Tail(iters))
                  IN  [raised |-> rest.raised, cands |-> here \o rest.cands]

\* seq[:n] of Python: a negative n counts from the end.
Slice(seq, n) ==
    IF n >= 0 THEN SubSeq(seq, 1, IF n < Len(seq) THEN n ELSE Len(seq))
    ELSE SubSeq(seq, 1, Len(seq) + n)

crawl_candidates(benchmark, entries, latest_iters) ==
    LET all == iter_dirs_numeric_sorted(entries, TRUE)
        iters == IF latest_iters # None /\ latest_iters[1] > 0
                 THEN Slice(all, latest_iters[1])
                 ELSE all
    IN  CrawlIters(benchmark, iters)

crawl_geneval_candidates(entries, latest_iters) ==
    crawl_candidates("geneval", entries, latest_iters)

crawl_dpg_candidates(entries, latest_iters) ==
    crawl_candidates("dpg", entries, latest_iters)

\* ------------------------------------------------------------- the site

\* The site root: [index, assets, images, manifest].  index: index.html is
\* there; assets: how many other regular files the site holds besides
\* index.html, manifest.json and the images; images: the regular files under
\* images/, a function from <<benchmark, iteration, sub-unit, file name>>
\* to [size, mtime]; manifest: None, or Some of the manifest.json written.
\* Directories are not regular files and are not part of the record.

count_files(s) ==
    (IF s.index THEN 1 ELSE 0) + s.assets
    + (IF s.manifest # None THEN 1 ELSE 0) + Cardinality(DOMAIN s.images)

DstOf(c) == c.dst_dir \o <<c.src.name>>

\* The test of copy_to_site: the destination is missing, older than the
\* source, or of another size.
needs_copy(images, c) ==
    \/ DstOf(c) \notin DOMAIN images
    \/ c.src.mtime > images[DstOf(c)].mtime
    \/ c.src.size # images[DstOf(c)].size

\* shutil.copy2 carries the content and the modification time over.
copy2(images, c) ==
    [p \in DOMAIN images \cup {DstOf(c)} |->
        IF p = DstOf(c) THEN [size |-> c.src.size, mtime |-> c.src.mtime]
        ELSE images[p]]

\* The copy made whatever is at the destination.
copy_to_site_always(images, c) == [images |-> copy2(images, c), wrote |-> TRUE]

\* copy_to_site: the images after the call and whether copy2 ran; the path
\* it returns is <<"images">> \o DstOf(c) in either case.  dst_dir.mkdir
\* makes directories, which are no regular files.
copy_to_site(images, c) ==
    IF needs_copy(images, c)
    THEN [images |-> copy2(images, c), wrote |-> TRUE]
    ELSE [images |-> images, wrote |-> FALSE]

web_rel(c) == <<"images">> \o DstOf(c)

\* ------------------------------------------------------------------ main

BenchChars(b) ==
    CASE b = "geneval" -> <<"g", "e", "n", "e", "v", "a", "l">>
      [] b = "dpg" -> <<"d", "p", "g">>

\* The key of the global sort, (iter_num, sub_num, mtime, benchmark), as one
\* integer sequence: three integers, then the benchmark's code points.
sort_key(c) == <<c.iter_num, c.sub_num, c.mtime>> \o Codes(BenchChars(c.benchmark))

Reverse(seq) == [i \in 1..Len(seq) |-> seq[Len(seq) + 1 - i]]

\* The sort done ascending and then reversed: equal keys change places.
sort_candidates_flipped(cands) ==
    Reverse(SortByKey(cands, [i \in 1..Len(cands) |-> sort_key(cands[i])], FALSE))

sort_candidates(cands) ==
    SortByKey(cands, [i \in 1..Len(cands) |-> sort_key(cands[i])], TRUE)

\* The limit without the file budget: --max-items alone.
effective_limit_items(max_items, file_budget, existing_files) == max_items

effective_limit(max_items, file_budget, existing_files) ==
    LET headroom == IF file_budget - existing_files < 0
                    THEN 0
                    ELSE file_budget - existing_files
    IN  IF max_items < headroom THEN max_items ELSE headroom

select(sorted, limit) == Slice(sorted, limit)

manifest_item(c) ==
    [id |-> c.id,
     benchmark |-> c.benchmark,
     image |-> web_rel(c),
     tags |-> << <<"iter", c.iter_dir>>,
                 <<IF c.benchmark = "geneval" THEN "count" ELSE "name", c.sub_dir>> >>]

RECURSIVE SetToSeq(_)
SetToSeq(S) ==
    IF S = {} THEN <<>>
    ELSE LET x == CHOOSE y \in S : TRUE IN <<x>> \o SetToSeq(S \ {x})

\* The manifest without created_at, which no two runs share.
make_manifest(items) ==
    LET names == SetToSeq({items[i].benchmark : i \in 1..Len(items)})
    IN  [benchmarks |-> SortByKey(names,
                                  [i \in 1..Len(names) |-> Codes(BenchChars(names[i]))],
                                  FALSE),
         items |-> items]

\* candidates += crawl_geneval_candidates(...); candidates += crawl_dpg_...:
\* a root that was not given on the command line is not crawled.
discover(tree, latest_iters) ==
    LET g == IF tree.geneval.given
             THEN crawl_geneval_candidates(tree.geneval.entries, latest_iters)
             ELSE [raised |-> FALSE, cands |-> <<>>]
        d == IF tree.dpg.given /\ ~g.raised
             THEN crawl_dpg_candidates(tree.dpg.entries, latest_iters)
             ELSE [raised |-> FALSE, cands |-> <<>>]
    IN  [raised |-> g.raised \/ d.raised, cands |-> g.cands \o d.cands]

\* One pass of the copy loop of main: acc is [images, writes], the images
\* so far and the destinations copy2 wrote.
copy_step(acc, c, done) ==
    [images |-> done.images,
     writes |-> acc.writes \cup (IF done.wrote THEN {DstOf(c)} ELSE {})]

\* The copy loop of main over `selected`.
RECURSIVE copy_all(_, _)
copy_all(acc, selected) ==
    IF selected = <<>> THEN acc
    ELSE copy_all(copy_step(acc, Head(selected), copy_to_site(acc.images, Head(selected))),
                  Tail(selected))

NoRun ==
    [stage |-> "none", code |-> 0, args |-> <<>>, candidates |-> <<>>,
     sorted |-> <<>>, existing_files |-> 0, limit |-> 0, selected |-> <<>>,
     writes |-> {}, before |-> <<>>]

\* main from the copy loop on (lines 234-263): `seen` is the record of the
\* run so far.
main_copy(s, seen, selected, copied) ==
    [site |-> [s EXCEPT !.images = copied.images,
                        !.manifest = Some(make_manifest(
                            [i \in 1..Len(selected) |-> manifest_item(selected[i])]))],
     run |-> [seen EXCEPT !.stage = "packed", !.writes = copied.writes]]

\* main from the selection on (lines 222-232).
main_selected(s, args, seen, selected) ==
    IF args.dry_run
    THEN [site |-> s, run |-> [seen EXCEPT !.stage = "dry", !.selected = selected]]
    ELSE main_copy(s, [seen EXCEPT !.selected = selected], selected,
                   copy_all([images |-> s.images, writes |-> {}], selected))

\* main from the sort on (lines 209-222).
main_ranked(s, args, base, candidates, sorted, limit) ==
    main_selected(s, args,
                  [base EXCEPT !.candidates = candidates,
                               !.sorted = sorted,
                               !.existing_files = count_files(s),
                               !.limit = limit],
                  select(sorted, limit))

\* main once the roots are crawled (lines 198-220).
main_crawled(s, args, base, found) ==
    IF found.raised
    THEN [site |-> s, run |-> [base EXCEPT !.stage = "raised", !.code = 1]]
    ELSE IF Len(found.cands) = 0
    THEN [site |-> [s EXCEPT !.manifest = Some(make_manifest(<<>>))],
          run |-> [base EXCEPT !.stage = "empty"]]
    ELSE main_ranked(s, args, base, found.cands, sort_candidates(found.cands),
                     effective_limit(args.max_items, args.file_budget, count_files(s)))

\* One whole run of main on site s: the site it leaves and the record of
\* the run.  args is [max_items, file_budget, dry_run, latest_iters].
\* stage names the exit taken: "noindex" (exit 2), "raised" (an exception
\* left the crawl, exit 1), "empty" (no candidates), "dry", "packed".
\* images_out.mkdir makes a directory, which is no regular file.
main(s, tree, args) ==
    IF ~s.index
    THEN [site |-> s,
          run |-> [NoRun EXCEPT !.args = args, !.before = <<s>>,
                                !.stage = "noindex", !.code = 2]]
    ELSE main_crawled(s, args, [NoRun EXCEPT !.args = args, !.before = <<s>>],
                      discover(tree, args.latest_iters))

\* ----------------------------------------------------------- source trees

\* A source tree is [geneval, dpg], each [given, entries]: whether the root
\* was given on the command line, and root.iterdir().  An entry of a root is
\* an iteration [name, isdir, mtime, gen], gen being the "generation" entry
\* [kind, entries] with kind "absent", "file" or "dir"; an entry of a
\* generation directory is a sub-unit [name, isdir, mtime, samples, files],
\* samples being [kind, files] and files the regular files in the sub-unit
\* itself; a file is [name, mtime, size].  The source trees do not change.

Jpg(stem, mtime) == [name |-> stem \o JpgSuffix, mtime |-> mtime, size |-> 1]
Json(stem, mtime) ==
    [name |-> stem \o <<".", "j", "n">>, mtime |-> mtime, size |-> 1]

NoFolder == [kind |-> "absent", files |-> <<>>]

\* A sub-unit of the geneval layout (images in samples/) and of the dpg
\* layout (images in the sub-unit).
GSub(name, mtime, samples) ==
    [name |-> name, isdir |-> TRUE, mtime |-> mtime, samples |-> samples, files |-> <<>>]
DSub(name, mtime, files) ==
    [name |-> name, isdir |-> TRUE, mtime |-> mtime, samples |-> NoFolder, files |-> files]

Iter(name, mtime, gen) == [name |-> name, isdir |-> TRUE, mtime |-> mtime, gen |-> gen]
Gen(subs) == [kind |-> "dir", entries |-> subs]
Samples(files) == [kind |-> "dir", files |-> files]

OkGIter(name, m) == Iter(name, m, Gen(<<GSub(<<"1">>, m, Samples(<<Jpg(<<"a">>, m)>>))>>))
OkDIter(name, m) == Iter(name, m, Gen(<<DSub(<<"1">>, m, <<Jpg(<<"a">>, m)>>)>>))

\* The trees of the serial runs: no candidate, one, or three over both roots.
PackTrees ==
    { [geneval |-> [given |-> TRUE, entries |-> g], dpg |-> [given |-> TRUE, entries |-> d]] :
        <<g, d>> \in
          { <<<<>>, <<>>>>,
            <<<<OkGIter(<<"1">>, MaxMtime)>>, <<>>>>,
            <<<<OkGIter(<<"1">>, MaxMtime), OkGIter(<<"2">>, MaxMtime)>>,
              <<OkDIter(<<"2">>, MaxMtime)>>>> } }

\* ------------------------------------------------------------------ state

VARIABLES
    tree,    \* the source trees
    site,    \* the site root
    budget,  \* --file-budget of the deployment
    prev,    \* the record of the run before the last one
    last,    \* the record of the last run
    copies,  \* per destination, how often copy2 wrote it
    hist,    \* [fits, nondry]: the site held at most `budget` files at the start;
             \* no run so far was a dry run
    dirs,    \* a call of iter_dirs_numeric_sorted: [listing, reverse, result, done]
    procs    \* the instances of the tool running side by side

vars == <<tree, site, budget, prev, last, copies, hist, dirs, procs>>

\* What the next run's record keeps of the run before it.
Brief(run) == [stage |-> run.stage, args |-> run.args, selected |-> run.selected]

NoDirs == [listing |-> <<>>, reverse |-> TRUE, result |-> <<>>, done |-> FALSE]

MaxItemsChoices == {0 - 1, 0, 1, MaxBudget}

PackArgs(max_items, dry_run) ==
    [max_items |-> max_items, file_budget |-> budget,
     dry_run |-> dry_run, latest_iters |-> None]

\* A file left at the destination of the first geneval artifact by an
\* earlier deployment: older or not, of the source's size or not.
StaleImages(t) ==
    IF t.geneval.entries = <<>> THEN {<<>>}
    ELSE {<<>>} \cup
         { [p \in {<<"geneval", <<"1">>, <<"1">>, <<"a">> \o JpgSuffix>>} |->
               [size |-> sz, mtime |-> m]] :
             sz \in {1, 2}, m \in 1..MaxMtime }

Init ==
    /\ tree \in PackTrees
    /\ budget \in 0..MaxBudget
    /\ \E index \in BOOLEAN, assets \in {0, 1}, old \in BOOLEAN :
         \E images \in StaleImages(tree) :
           /\ index \/ (assets = 0 /\ ~old /\ images = <<>>)
           /\ site = [index |-> index, assets |-> assets, images |-> images,
                      manifest |-> IF old THEN Some(make_manifest(<<>>)) ELSE None]
    /\ prev = Brief(NoRun)
    /\ last = NoRun
    /\ copies = <<>>
    /\ hist = [fits |-> count_files(site) <= budget, nondry |-> TRUE]
    /\ dirs = NoDirs
    /\ procs = <<>>

Count(p) == IF p \in DOMAIN copies THEN copies[p] ELSE 0

Ran(r) ==
    /\ site' = r.site
    /\ prev' = Brief(last)
    /\ last' = r.run
    /\ copies' = [p \in DOMAIN copies \cup r.run.writes |->
                     Count(p) + (IF p \in r.run.writes THEN 1 ELSE 0)]
    /\ hist' = [hist EXCEPT !.nondry = @ /\ ~r.run.args.dry_run]
    /\ UNCHANGED <<tree, budget, dirs, procs>>

\* A run of the tool that is over before the next one starts.
Pack ==
    \E max_items \in MaxItemsChoices : Ran(main(site, tree, PackArgs(max_items, FALSE)))

\* The same with --dry-run.
DryRun ==
    \E max_items \in MaxItemsChoices : Ran(main(site, tree, PackArgs(max_items, TRUE)))

Next == Pack \/ DryRun

Spec == Init /\ [][Next]_vars

\* -------------------------------------------- properties of serial runs

Range(seq) == {seq[i] : i \in 1..Len(seq)}

Min3(a, b, c) ==
    IF a <= b /\ a <= c THEN a ELSE IF b <= c THEN b ELSE c

Finished(run) == run.stage \in {"empty", "packed"}

\* C1: from a site root with at most file_budget regular files, after any
\* sequence of runs none of which is a dry run, the site root holds at most
\* file_budget regular files, manifest.json and the copied images included.
C1_BudgetSafety ==
    (hist.fits /\ hist.nondry) => count_files(site) <= budget

\* C2: when the run found candidates, the number selected is
\* min(max_items, file_budget - existing_files, total_candidates) wherever
\* that minimum is a count; and whatever max_items is, it is no more than
\* what the snapshot left of the budget (at most 5 with a budget of 100 and
\* 95 files there).
C2_SelectedCount ==
    last.stage \in {"dry", "packed"} =>
        LET least == Min3(last.args.max_items,
                          last.args.file_budget - last.existing_files,
                          Len(last.candidates))
            left == last.args.file_budget - last.existing_files
        IN  /\ least >= 0 => Len(last.selected) = least
            /\ Len(last.selected) <= (IF left < 0 THEN 0 ELSE left)

\* C3: a second run with the arguments of the run before it, over the same
\* sources, writes the items and the benchmark list the first one wrote.
C3_RunIdempotent ==
    (/\ prev.stage = "packed"
     /\ Finished(last)
     /\ ~last.args.dry_run
     /\ prev.args = last.args)
    => site.manifest = last.before[1].manifest

\* C4: a dry run on a site with its index.html leaves every regular file of
\* the site root as it was, manifest.json too, and exits with 0.
C4_DryRunFrame ==
    (last.stage # "none" /\ last.args.dry_run /\ last.before[1].index)
    => (site = last.before[1] /\ last.code = 0)

\* C7: a run writes a selected artifact's destination exactly when the
\* destination is missing, older than the source or of another size; the
\* destination then has the source's size and mtime; an artifact the run
\* before already delivered is not written again and its file stays as it
\* was; and over all runs no destination is written twice.
C7_CopyIdempotent ==
    /\ last.stage = "packed" =>
         \A c \in Range(last.selected) :
           LET dst == c.dst_dir \o <<c.src.name>>
               was == last.before[1].images
           IN  /\ dst \in last.writes <=>
                    \/ dst \notin DOMAIN was
                    \/ c.src.mtime > was[dst].mtime
                    \/ c.src.size # was[dst].size
               /\ dst \in DOMAIN site.images
               /\ site.images[dst] = [size |-> c.src.size, mtime |-> c.src.mtime]
               /\ (prev.stage = "packed" /\ c \in Range(prev.selected)) =>
                    /\ dst \notin last.writes
                    /\ site.images[dst] = was[dst]
    /\ \A p \in DOMAIN copies : copies[p] <= 1

\* Two packing runs in a row selected the same artifact; the second wrote
\* nothing, and a file an earlier deployment had left was replaced once.
C7_Witness ==
    /\ prev.stage = "packed"
    /\ last.stage = "packed"
    /\ last.selected # <<>>
    /\ last.selected[1] \in Range(prev.selected)
    /\ last.writes = {}
    /\ \E p \in DOMAIN copies : copies[p] = 1 /\ p \in DOMAIN last.before[1].images

\* ------------------------------------------- one run over irregular trees

IterNames == {<<"2">>, <<"-", "5">>, <<"a", "l", "p", "h", "a">>, <<"b">>}

IterShapes == {"ok", "pair", "nogen", "genfile", "nosamples", "samplesfile", "noimage"}

\* The "generation" entry of a geneval iteration of each shape.
ShapeGen(shape, m) ==
    CASE shape = "ok" ->
           Gen(<<GSub(<<"1">>, m,
                      Samples(<<Jpg(<<"b">>, 1), Jpg(<<"a">>, m), Json(<<"a">>, m)>>))>>)
      [] shape = "pair" ->
           Gen(<<GSub(<<"a">>, m, Samples(<<Jpg(<<"a">>, m)>>)),
                 GSub(<<"-", "5">>, m, Samples(<<Jpg(<<"a">>, m)>>))>>)
      [] shape = "nogen" -> [kind |-> "absent", entries |-> <<>>]
      [] shape = "genfile" -> [kind |-> "file", entries |-> <<>>]
      [] shape = "nosamples" -> Gen(<<GSub(<<"1">>, m, NoFolder)>>)
      [] shape = "samplesfile" ->
           Gen(<<GSub(<<"1">>, m, [kind |-> "file", files |-> <<>>])>>)
      [] shape = "noimage" -> Gen(<<GSub(<<"1">>, m, Samples(<<Json(<<"a">>, m)>>))>>)

\* A regular file beside the iteration directories, with a numeric name.
StrayFile ==
    [name |-> <<"9">>, isdir |-> FALSE, mtime |-> 1,
     gen |-> [kind |-> "absent", entries |-> <<>>]]

\* Two geneval iterations of any two names, shapes and mtimes, listed in
\* either order beside a stray file; the dpg root, when given, holds one
\* regular iteration.
IrregularTrees ==
    { [geneval |-> [given |-> TRUE,
                    entries |-> <<Iter(n1, m1, ShapeGen(s1, m1)), StrayFile,
                                  Iter(n2, m2, ShapeGen(s2, m2))>>],
       dpg |-> [given |-> d, entries |-> <<OkDIter(<<"2">>, MaxMtime)>>]] :
        n1 \in IterNames, n2 \in IterNames, s1 \in IterShapes, s2 \in IterShapes,
        m1 \in 1..MaxMtime, m2 \in 1..MaxMtime, d \in BOOLEAN }

InitTree ==
    /\ tree \in { t \in IrregularTrees :
                    t.geneval.entries[1].name # t.geneval.entries[3].name }
    /\ budget = MaxBudget
    /\ site = [index |-> TRUE, assets |-> 0, images |-> <<>>, manifest |-> None]
    /\ prev = Brief(NoRun)
    /\ last = NoRun
    /\ copies = <<>>
    /\ hist = [fits |-> TRUE, nondry |-> TRUE]
    /\ dirs = NoDirs
    /\ procs = <<>>

\* The first run of the tool on a fresh site.
PackOnce ==
    /\ last.stage = "none"
    /\ \E max_items \in MaxItemsChoices, latest_iters \in {None, Some(1)} :
         Ran(main(site, tree,
                  [max_items |-> max_items, file_budget |-> budget,
                   dry_run |-> FALSE, latest_iters |-> latest_iters]))

NextTree == PackOnce

SpecTree == InitTree /\ [][NextTree]_vars

\* ------------------------------------- properties of crawl and ordering

\* a's composite key is strictly greater than b's: the first of iteration
\* rank, sub-unit rank, modification time and benchmark name in which they
\* differ is greater in a ("geneval" follows "dpg" in string order).
KeyGreater(a, b) ==
    \/ a.iter_num > b.iter_num
    \/ /\ a.iter_num = b.iter_num
       /\ \/ a.sub_num > b.sub_num
          \/ /\ a.sub_num = b.sub_num
             /\ \/ a.mtime > b.mtime
                \/ /\ a.mtime = b.mtime
                   /\ a.benchmark = "geneval"
                   /\ b.benchmark = "dpg"

KeyEqual(a, b) == ~KeyGreater(a, b) /\ ~KeyGreater(b, a)

\* The place of x in seq.
IndexOf(seq, x) == CHOOSE i \in 1..Len(seq) : seq[i] = x

\* C5: the selected sequence is a prefix of the candidates of both
\* benchmarks in descending key order: it holds candidates only, each once;
\* keys do not increase along it; no candidate left out has a greater key
\* than one taken; among equal keys the discovery order decides who comes
\* first and who is taken; and the manifest lists the items in this order.
C5_SelectedPrefix ==
    last.stage = "packed" =>
        LET sel == last.selected
            cands == last.candidates
            rest == Range(cands) \ Range(sel)
            items == site.manifest[1].items
        IN  /\ Range(sel) \subseteq Range(cands)
            /\ \A i, j \in 1..Len(sel) : sel[i] = sel[j] => i = j
            /\ \A i \in 1..(Len(sel) - 1) : ~KeyGreater(sel[i + 1], sel[i])
            /\ \A u \in rest, t \in Range(sel) : ~KeyGreater(u, t)
            /\ \A i, j \in 1..Len(sel) :
                 (i < j /\ KeyEqual(sel[i], sel[j])) =>
                     IndexOf(cands, sel[i]) < IndexOf(cands, sel[j])
            /\ \A u \in rest, t \in Range(sel) :
                 KeyEqual(u, t) => IndexOf(cands, t) < IndexOf(cands, u)
            /\ Len(items) = Len(sel)
            /\ \A i \in 1..Len(sel) :
                 /\ items[i].id = sel[i].id
                 /\ items[i].benchmark = sel[i].benchmark
                 /\ items[i].image = <<"images">> \o sel[i].dst_dir \o <<sel[i].src.name>>

\* A run took candidates of both benchmarks, two of them of equal key, and
\* left out a candidate whose key equals that of one it took.
C5_Witness ==
    /\ last.stage = "packed"
    /\ {c.benchmark : c \in Range(last.selected)} = {"geneval", "dpg"}
    /\ \E i, j \in 1..Len(last.selected) :
         i < j /\ KeyEqual(last.selected[i], last.selected[j])
    /\ \E u \in Range(last.candidates) \ Range(last.selected) :
         \E t \in Range(last.selected) : KeyEqual(u, t)

\* The units of a root that are as the crawler expects them: an iteration
\* directory with a generation directory, a sub-unit directory in it, and
\* an image in the sub-unit's samples directory (geneval) or in the sub-unit
\* (dpg).
WellFormed(benchmark, entries) ==
    { <<benchmark, entries[i].name, entries[i].gen.entries[j].name>> :
        <<i, j>> \in
          { ij \in (1..Len(entries)) \X (1..2) :
              /\ entries[ij[1]].isdir
              /\ entries[ij[1]].gen.kind = "dir"
              /\ ij[2] <= Len(entries[ij[1]].gen.entries)
              /\ LET sub == entries[ij[1]].gen.entries[ij[2]]
                     files == IF benchmark = "geneval"
                              THEN (IF sub.samples.kind = "dir"
                                    THEN sub.samples.files ELSE <<>>)
                              ELSE sub.files
                 IN  /\ sub.isdir
                     /\ \E k \in 1..Len(files) :
                          LET n == files[k].name
                          IN  Len(n) > 4 /\ SubSeq(n, Len(n) - 3, Len(n)) = <<".", "j", "p", "g">> } }

\* C8: whatever the trees look like, the crawl raises no error, a unit that
\* is not as expected gives no candidate, and every unit that is as expected
\* gives one.
C8_CrawlTolerant ==
    last.stage # "none" =>
        /\ last.stage # "raised"
        /\ last.args.latest_iters = None =>
             { <<c.benchmark, c.iter_dir, c.sub_dir>> : c \in Range(last.candidates) }
               = WellFormed("geneval", tree.geneval.entries)
                 \cup (IF tree.dpg.given THEN WellFormed("dpg", tree.dpg.entries) ELSE {})

\* C9: in the global order no candidate whose iteration label is not an
\* integer stands ahead of one whose label is, and among candidates of equal
\* iteration rank the same holds of the sub-unit labels.
C9_UnrankedLast ==
    \A i, j \in 1..Len(last.sorted) :
        i < j =>
            /\ ~(/\ parse_int(last.sorted[i].iter_dir) = None
                 /\ parse_int(last.sorted[j].iter_dir) # None)
            /\ last.sorted[i].iter_num = last.sorted[j].iter_num =>
                 ~(/\ parse_int(last.sorted[i].sub_dir) = None
                   /\ parse_int(last.sorted[j].sub_dir) # None)

\* ------------------------------------- iter_dirs_numeric_sorted by itself

Alpha == <<"a", "l", "p", "h", "a">>

DirNames == {<<"1", "0">>, <<"9">>, <<"0", "9">>, Alpha, <<"b">>}

\* The listings of a directory with up to MaxDirs entries of distinct
\* names; the first entry may be a regular file.
Listings ==
    UNION { { l \in [1..n -> [name : DirNames, isdir : BOOLEAN, mtime : 1..MaxMtime]] :
                /\ \A i, j \in 1..n : l[i].name = l[j].name => i = j
                /\ \A i \in 2..n : l[i].isdir } :
            n \in 0..MaxDirs }

InitDirs ==
    /\ \E l \in Listings : dirs = [NoDirs EXCEPT !.listing = l]
    /\ tree = [geneval |-> [given |-> FALSE, entries |-> <<>>],
               dpg |-> [given |-> FALSE, entries |-> <<>>]]
    /\ budget = 0
    /\ site = [index |-> FALSE, assets |-> 0, images |-> <<>>, manifest |-> None]
    /\ prev = Brief(NoRun)
    /\ last = NoRun
    /\ copies = <<>>
    /\ hist = [fits |-> FALSE, nondry |-> TRUE]
    /\ procs = <<>>

\* A call iter_dirs_numeric_sorted(root, reverse).
OrderDirs ==
    /\ ~dirs.done
    /\ \E reverse \in BOOLEAN :
         dirs' = [dirs EXCEPT !.reverse = reverse,
                              !.result = iter_dirs_numeric_sorted(dirs.listing, reverse),
                              !.done = TRUE]
    /\ UNCHANGED <<tree, site, budget, prev, last, copies, hist, procs>>

NextDirs == OrderDirs

SpecDirs == InitDirs /\ [][NextDirs]_vars

IntNamed(p) == parse_int(p.name) # None
IntOf(p) == parse_int(p.name)[1]

\* C6: in both directions iter_dirs_numeric_sorted returns the
\* subdirectories, each once; every integer-named one stands before every
\* other one, whatever their mtimes; the integer-named ones are in the order
\* of their values and the others in the order of their mtimes, descending
\* when reverse is set and ascending when not.
C6_NumericFirst ==
    dirs.done =>
        LET out == dirs.result
        IN  /\ Range(out) = {p \in Range(dirs.listing) : p.isdir}
            /\ \A i, j \in 1..Len(out) : out[i] = out[j] => i = j
            /\ \A i, j \in 1..Len(out) :
                 i < j =>
                   /\ IntNamed(out[j]) => IntNamed(out[i])
                   /\ (IntNamed(out[i]) /\ IntNamed(out[j])) =>
                        IF dirs.reverse THEN IntOf(out[i]) >= IntOf(out[j])
                        ELSE IntOf(out[i]) <= IntOf(out[j])
                   /\ (~IntNamed(out[i]) /\ ~IntNamed(out[j])) =>
                        IF dirs.reverse THEN out[i].mtime >= out[j].mtime
                        ELSE out[i].mtime <= out[j].mtime

\* "10", "9" and a directory "alpha" that is listed first and is newer than
\* both, descending: the result is "10", "9", "alpha".
C6_Witness ==
    /\ dirs.done
    /\ dirs.reverse
    /\ Len(dirs.result) = 3
    /\ dirs.result[1].name = <<"1", "0">>
    /\ dirs.result[2].name = <<"9">>
    /\ dirs.result[3].name = Alpha
    /\ dirs.result[3].mtime > dirs.result[1].mtime
    /\ dirs.result[3].mtime > dirs.result[2].mtime
    /\ dirs.listing[1].name = Alpha

\* --------------------------------------------- two instances side by side

Instances == {1, 2}

Idle ==
    [pc |-> "idle", args |-> <<>>, existing_files |-> 0, selected |-> <<>>,
     k |-> 0, overlapped |-> FALSE, abreast |-> FALSE]

InitConc ==
    /\ tree \in PackTrees
    /\ budget \in 0..MaxBudget
    /\ \E assets \in {0, 1} :
         site = [index |-> TRUE, assets |-> assets, images |-> <<>>, manifest |-> None]
    /\ prev = Brief(NoRun)
    /\ last = NoRun
    /\ copies = <<>>
    /\ hist = [fits |-> count_files(site) <= budget, nondry |-> TRUE]
    /\ dirs = NoDirs
    /\ procs = [i \in Instances |-> Idle]

\* The roots an instance was started with.
Given(roots) ==
    [tree EXCEPT !.geneval.given = roots \in {"geneval", "both"},
                 !.dpg.given = roots \in {"dpg", "both"}]

Started(i, args, found, existing_files) ==
    [Idle EXCEPT !.pc = IF found.cands = <<>> THEN "done" ELSE "copy",
                 !.args = args,
                 !.existing_files = existing_files,
                 !.selected =
                     select(sort_candidates(found.cands),
                            effective_limit(args.max_items, args.file_budget,
                                            existing_files)),
                 !.overlapped = \E j \in Instances \ {i} : procs[j].pc \in {"copy", "write"},
                 !.abreast = \E j \in Instances \ {i} :
                                 procs[j].pc = "copy" /\ procs[j].k = 0]

StartWith(i, args, found) ==
    /\ procs' = [procs EXCEPT ![i] = Started(i, args, found, count_files(site))]
    /\ site' = IF found.cands = <<>>
               THEN [site EXCEPT !.manifest = Some(make_manifest(<<>>))]
               ELSE site

\* main of instance i up to the selection (lines 179-225): the crawl, the
\* sort, the count of the files under the site root and the truncation.
\* With no candidate the empty manifest is written and the run is over.
Start(i) ==
    /\ procs[i].pc = "idle"
    /\ \E max_items \in MaxItemsChoices, roots \in {"geneval", "dpg", "both"} :
         StartWith(i,
                   [max_items |-> max_items, file_budget |-> budget,
                    dry_run |-> FALSE, latest_iters |-> None],
                   discover(Given(roots), None))
    /\ UNCHANGED <<tree, budget, prev, last, copies, hist, dirs>>

\* One pass of the copy loop of instance i (lines 236-237); after the last
\* one the manifest is due.
Copy(i) ==
    /\ procs[i].pc = "copy"
    /\ IF procs[i].k < Len(procs[i].selected)
       THEN /\ site' = [site EXCEPT !.images =
                           copy_to_site(site.images,
                                        procs[i].selected[procs[i].k + 1]).images]
            /\ procs' = [procs EXCEPT ![i].k = @ + 1]
       ELSE /\ site' = site
            /\ procs' = [procs EXCEPT ![i].pc = "write"]
    /\ UNCHANGED <<tree, budget, prev, last, copies, hist, dirs>>

\* Instance i writes manifest.json (lines 255-262).
Write(i) ==
    /\ procs[i].pc = "write"
    /\ site' = [site EXCEPT !.manifest =
                   Some(make_manifest([n \in 1..Len(procs[i].selected) |->
                                           manifest_item(procs[i].selected[n])]))]
    /\ procs' = [procs EXCEPT ![i].pc = "done"]
    /\ UNCHANGED <<tree, budget, prev, last, copies, hist, dirs>>

NextConc == \E i \in Instances : Start(i) \/ Copy(i) \/ Write(i)

SpecConc == InitConc /\ [][NextConc]_vars

\* The regular files under the site root other than manifest.json.
OtherFiles == count_files(site) - (IF site.manifest # None THEN 1 ELSE 0)

Headroom(p) ==
    IF p.args.file_budget - p.existing_files < 0 THEN 0
    ELSE p.args.file_budget - p.existing_files

Sane ==
    \A i \in Instances : procs[i].pc # "idle" => procs[i].args.max_items >= 0

\* C10: with --max-items not negative, each instance selects no more than
\* the budget its own snapshot left; and the files under a site root that
\* started within the budget exceed it, manifest.json not counted, only when
\* one instance took its snapshot while the other was between its snapshot
\* and its end.
C10_OverrunNeedsRace ==
    Sane =>
        /\ \A i \in Instances :
             procs[i].pc # "idle" => Len(procs[i].selected) <= Headroom(procs[i])
        /\ (hist.fits /\ OtherFiles > budget) =>
             \E i \in Instances : procs[i].overlapped

\* Both instances took their snapshots before either copied a file, each
\* selected no more than its snapshot left of the budget, and the site root
\* now holds more regular files than the budget, manifest.json not counted.
C10_Witness ==
    /\ Sane
    /\ hist.fits
    /\ \E i \in Instances : procs[i].abreast
    /\ \A i \in Instances :
         /\ procs[i].pc \in {"copy", "write", "done"}
         /\ procs[i].existing_files <= budget
         /\ Len(procs[i].selected) <= budget - procs[i].existing_files
    /\ OtherFiles > budget

====
